---- MODULE Spec2Model ----
(***************************************************************************)
(* IDA-CFP: extraction of (function, string literal) associations from    *)
(* parsed C files and their adjudication into the unique-string mapping.  *)
(*                                                                         *)
(* The state is the class-level state of `Record` (tpl_list,              *)
(* str_func_dict), the two visitors owned by the `AstParser` that `Core`  *)
(* keeps for its whole life, and the position of the call of              *)
(* Core.process_files that is in progress.  The syntax tree comes from    *)
(* the external parser (pycparser); the model draws each part of a tree   *)
(* at the moment the walker first reads it: the top-level nodes when the  *)
(* tree is loaded, the constants of a function body when the              *)
(* ConstantVisitor visits that function.                                  *)
(***************************************************************************)
EXTENDS Integers, Sequences, FiniteSets, Bags, TLC

\* ------------------------------------------------------------------ bounds
MaxFiles == 2     \* files handed to one call of process_files
MaxNodes == 2     \* top-level nodes of one tree
MaxBody  == 2     \* constant nodes inside one function definition
MaxList  == 3     \* cap on the length of Record.tpl_list
MaxText  == 3     \* characters of a number, escape items of a string literal
MaxNested == 1    \* constants in the body of a nested function definition

\* --------------------------------------------------------------- constants
MIN_BYTES == 10

Q == "\""

\* Function names in ascending (lexicographic) order, as list.sort sees them.
FuncNames == <<"f1", "f2">>

Digits == {"0", "1", "2", "3", "4", "5", "6", "7", "8", "9"}

\* Texts of Constant nodes (node.value) as sequences of characters:
\* the C literals "a", "b", 42 and "".
ConstTexts == { <<Q, "a", Q>>, <<Q, "b", Q>>, <<"4", "2">>, <<Q, Q>> }

\* File handles as argparse.FileType / a caller may supply them.
FileHandles == [mode : {"r", "w"}, name : {"", "a.c"}]

\* Top-level nodes of a FileAST: function definitions and other declarations.
TopNodes == [kind : {"FuncDef"}, name : {FuncNames[i] : i \in DOMAIN FuncNames}]
            \cup {[kind |-> "Decl", name |-> "g"]}

SeqsUpTo(S, n) == UNION {[1..k -> S] : k \in 0..n}

FileLists == SeqsUpTo(FileHandles, MaxFiles)
Trees     == SeqsUpTo(TopNodes, MaxNodes)
Bodies    == SeqsUpTo(ConstTexts, MaxBody)

\* ---------------------------------------------------------- pure functions

\* int(node.value): succeeds on an optionally signed, non-empty run of digits.
ParsesAsInt(text) ==
    LET body == IF Len(text) > 0 /\ text[1] \in {"+", "-"} THEN Tail(text) ELSE text
    IN  Len(body) > 0 /\ \A i \in DOMAIN body : body[i] \in Digits

BS == "\\"

\* The source texts of Constant nodes, as the parser hands them over in
\* node.value: numbers, and string literals between their two quotes, made of
\* plain characters and escape sequences.
NumberTexts ==
    {t \in SeqsUpTo({"4", "2", "."}, MaxText) :
        /\ \E i \in DOMAIN t : t[i] # "."
        /\ Cardinality({i \in DOMAIN t : t[i] = "."}) <= 1}

CharItems == { <<"a">>, <<BS, Q>>, <<BS, BS>>, <<BS, "n">> }

RECURSIVE Flatten(_)
Flatten(items) == IF items = <<>> THEN <<>> ELSE Head(items) \o Flatten(Tail(items))

StringLiterals == {<<Q>> \o Flatten(b) \o <<Q>> : b \in SeqsUpTo(CharItems, MaxText)}

NodeValues == NumberTexts \cup StringLiterals

\* The children of a FuncDef node under ConstantVisitor.visit: Constant nodes
\* and nested FuncDef nodes, the latter with Constant nodes below them.
BodyItems ==
    [kind : {"Constant"}, value : ConstTexts, body : {<<>>}]
    \cup [kind : {"FuncDef"}, value : {<<>>}, body : SeqsUpTo(ConstTexts, MaxNested)]

FunctionNodes == SeqsUpTo(BodyItems, MaxBody)

\* node.value.replace('"', '')
StripQuotes(text) == SelectSeq(text, LAMBDA c : c # Q)

\* ConstantVisitor.visit_Constant applied to one node: the new self.values.
visit_Constant(values, text) ==
    IF ParsesAsInt(text) THEN values
    ELSE IF StripQuotes(text) # <<>> THEN Append(values, StripQuotes(text))
    ELSE values

\* ConstantVisitor.visit(function_node): visit_Constant on each constant of
\* the body, in traversal order.
RECURSIVE VisitConstants(_, _)
VisitConstants(values, body) ==
    IF body = <<>> THEN values
    ELSE VisitConstants(visit_Constant(values, Head(body)), Tail(body))

\* ConstantVisitor.visit(function_node) over children of either kind: a
\* Constant goes to visit_Constant; ConstantVisitor defines no visit_FuncDef,
\* so a nested FuncDef goes to generic_visit, which visits its children.
RECURSIVE VisitNode(_, _)
VisitNode(values, items) ==
    IF items = <<>> THEN values
    ELSE LET node == Head(items)
         IN  VisitNode(IF node.kind = "Constant"
                           THEN visit_Constant(values, node.value)
                           ELSE VisitConstants(values, node.body),
                       Tail(items))

\* (process_out_dataMutRuns: every run of backslashes collapsed to one.)
RECURSIVE process_out_dataMutRuns(_)
process_out_dataMutRuns(data) ==
    IF data = <<>> THEN <<>>
    ELSE IF Len(data) >= 2 /\ data[1] = BS /\ data[2] = BS
         THEN process_out_dataMutRuns(Tail(data))
         ELSE <<Head(data)>> \o process_out_dataMutRuns(Tail(data))

\* Interface.process_out_data: str.replace("\\\\", "\\"), which replaces the
\* non-overlapping pairs of backslashes found from left to right.
RECURSIVE process_out_data(_)
process_out_data(data) ==
    IF data = <<>> THEN <<>>
    ELSE IF Len(data) >= 2 /\ data[1] = BS /\ data[2] = BS
         THEN <<BS>> \o process_out_data(SubSeq(data, 3, Len(data)))
         ELSE <<Head(data)>> \o process_out_data(Tail(data))

\* FuncDefVisitor.visit(ast): visit_FuncDef appends each FuncDef node.
RECURSIVE VisitFuncDefs(_, _)
VisitFuncDefs(nodes, tree) ==
    IF tree = <<>> THEN nodes
    ELSE VisitFuncDefs(IF Head(tree).kind = "FuncDef" THEN Append(nodes, Head(tree)) ELSE nodes,
                       Tail(tree))

\* sys.getsizeof(ast): a CPython object header plus the three slots of FileAST.
getsizeof(tree) == 16 + 8 * 3

\* strings.count(string) over the second elements of the tuples.
Count(list, string) == Cardinality({i \in DOMAIN list : list[i][2] = string})

\* The strings collected in to_remove: those occurring more than once.
\* (ToRemoveMutAll: the test written `>= 1`; ToRemoveMutOffByOne: `> 2`.)
ToRemoveMutAll(list) == {list[i][2] : i \in DOMAIN list}
ToRemoveMutOffByOne(list) == {list[i][2] : i \in {j \in DOMAIN list : Count(list, list[j][2]) > 2}}
ToRemove(list) == {list[i][2] : i \in {j \in DOMAIN list : Count(list, list[j][2]) > 1}}

\* Record.remove_non_unique_from_list: the list after every removal.
\* (remove_non_unique_from_listMutKeep: the removal left out.)
remove_non_unique_from_listMutKeep(list) == list
remove_non_unique_from_list(list) ==
    SelectSeq(list, LAMBDA t : t[2] \notin ToRemove(list))

\* Record.sort_tmp_list: stable sort by function name, ascending.
RECURSIVE SortFrom(_, _)
SortFrom(list, r) ==
    IF r > Len(FuncNames) THEN <<>>
    ELSE SelectSeq(list, LAMBDA t : t[1] = FuncNames[r]) \o SortFrom(list, r + 1)

sort_tmp_list(list) == SortFrom(list, 1)

EmptyDict == [k \in {} |-> ""]

\* dict(reverse) for reverse = [(t[1], t[0]) for t in list]: the last pair of
\* a key wins.
DictOfReverse(list) ==
    [k \in {list[i][2] : i \in DOMAIN list} |->
        LET last == CHOOSE i \in DOMAIN list :
                        /\ list[i][2] = k
                        /\ \A j \in DOMAIN list : list[j][2] = k => j <= i
        IN  list[last][1]]

\* dict.update  (UpdateMutReplace: assignment in place of update;
\* UpdateMutKeepOld: a key already present keeps its value;
\* UpdateMutDropCommon: a key already present is dropped as a conflict.)
UpdateMutReplace(d, e) == e
UpdateMutKeepOld(d, e) ==
    [k \in DOMAIN d \cup DOMAIN e |-> IF k \in DOMAIN d THEN d[k] ELSE e[k]]
UpdateMutDropCommon(d, e) ==
    [k \in (DOMAIN d \cup DOMAIN e) \ (DOMAIN d \cap DOMAIN e) |->
        IF k \in DOMAIN e THEN e[k] ELSE d[k]]
Update(d, e) ==
    [k \in DOMAIN d \cup DOMAIN e |-> IF k \in DOMAIN e THEN e[k] ELSE d[k]]

\* Verifier.check_parsable: the error it raises, "none" when it returns.
RECURSIVE check_parsable(_)
check_parsable(fs) ==
    IF fs = <<>> THEN "none"
    ELSE IF Head(fs).mode # "r" THEN "FilePermissionsError"
    ELSE IF Head(fs).name = "" THEN "FileLocationError"
    ELSE check_parsable(Tail(fs))

\* Core.process_files: `if not files`  (NoFilesMut: the test left out.)
NoFilesMut(fs) == FALSE
NoFiles(fs) == fs = <<>>

\* Verifier.check_num_ast_functions: `if not count`
\* (NoFunctionsMut: the test left out.)
NoFunctionsMut(nodes) == FALSE
NoFunctions(nodes) == Len(nodes) = 0

\* AstParser.process_ast: `if not Record.tpl_list`
NoStrings(list) == list = <<>>

WarnFile(k) == [msg |-> "No strings found in target file", file |-> k]
WarnEmptyList == [msg |-> "Empty list when converting to final dictionary", file |-> 0]
WarnEmptyDict == [msg |-> "No strings found in final dictionary", file |-> 0]

\* ------------------------------------------------------------------- state
VARIABLES
    tpl_list,        \* Record.tpl_list: sequence of <<function, string>>
    str_func_dict,   \* Record.str_func_dict: string -> function
    func_nodes,      \* AstParser.func_visitor.nodes
    const_values,    \* AstParser.const_visitor.values
    fs_bound,        \* what the local function_strings is bound to:
                     \* "local" (the fresh list) or "values" (const_visitor.values)
    pc,              \* position of the call in progress, "idle" when none
    files,           \* the names of the file handles passed to process_files
    idx,             \* position of the loop over files
    ast,             \* the tree of the file being processed
    fidx,            \* position of the loop over function_list
    sidx,            \* position of the loop over function_strings
    outcome,         \* of the last call: "none", "running", "returned", "raised"
    err,             \* the exception raised, "none" otherwise
    log,             \* warnings recorded during the last call
    \* history of the call, for stating the properties
    lastOp,          \* the operation that produced this state
    adjInput,        \* tpl_list as the adjudication that just ran found it
    dict0,           \* str_func_dict when the call started
    startEmpty,      \* Record was empty when the call started
    runCand,         \* bag of the <<file, function, string>> appended during the call
    runTrees,        \* trees requested from the parser during the call
    adjRuns,         \* adjudications during the call; of direct calls, those in a row (up to 2)
    fileAdds,        \* associations appended during the current file's pass
    ownNodes,        \* the function definitions of the current file's tree
    ownKept,         \* the strings kept from the body of the current function
    \* the inputs of the walkers and of the normalization, taken on their own
    node_value,      \* the text of the Constant node under visit_Constant
    json_data,       \* Interface.json_data, the string under process_out_data
    passes,          \* normalizations applied to json_data so far
    function_node    \* the body of the FuncDef node under ConstantVisitor.visit

vars == <<tpl_list, str_func_dict, func_nodes, const_values, fs_bound, pc, files,
          idx, ast, fidx, sidx, outcome, err, log, lastOp, adjInput, dict0,
          startEmpty, runCand, runTrees, adjRuns, fileAdds, ownNodes, ownKept,
          node_value, json_data, passes, function_node>>

record  == <<tpl_list, str_func_dict>>
parser  == <<func_nodes, const_values, fs_bound>>
history == <<adjInput, dict0, startEmpty, runCand, runTrees, adjRuns, fileAdds>>
own     == <<ownNodes, ownKept>>
inputs  == <<node_value, json_data, passes, function_node>>

InitProgram ==
    /\ tpl_list = <<>>
    /\ str_func_dict = EmptyDict
    /\ func_nodes = <<>>
    /\ const_values = <<>>
    /\ fs_bound = "local"
    /\ pc = "idle"
    /\ files = <<>>
    /\ idx = 0
    /\ ast = <<>>
    /\ fidx = 0
    /\ sidx = 0
    /\ outcome = "none"
    /\ err = "none"
    /\ log = {}
    /\ lastOp = "init"
    /\ adjInput = <<>>
    /\ dict0 = EmptyDict
    /\ startEmpty = TRUE
    /\ runCand = EmptyBag
    /\ runTrees = 0
    /\ adjRuns = 0
    /\ fileAdds = 0
    /\ ownNodes = <<>>
    /\ ownKept = <<>>

Init ==
    /\ InitProgram
    /\ node_value = <<>>
    /\ json_data = <<>>
    /\ passes = 0
    /\ function_node = <<>>

\* ----------------------------------------------------------------- actions

\* An exception leaves the call: nothing is caught below main.
Raise(e) ==
    /\ pc' = "idle"
    /\ outcome' = "raised"
    /\ err' = e

\* f_str.name for each handle of the list: all that process_files reads of it.
Names(fs) == [i \in DOMAIN fs |-> fs[i].name]

\* `for f_str in files`: the position after k files of the list are done,
\* the next file or, the loop exhausted, the adjudication.
\* (AfterFileMutEach: the adjudication moved into the loop.)
AfterFileMutEach(k, names) == "integrate"
AfterFile(k, names) == IF k < Len(names) THEN "load" ELSE "integrate"

\* The body of Core.process_files up to the loop, for the argument fs.
EnterProcessFiles(fs) ==
    /\ files' = Names(fs)
    /\ idx' = 1
    /\ ast' = <<>>
    /\ fidx' = 0
    /\ sidx' = 0
    /\ log' = {}
    /\ adjInput' = <<>>
    /\ dict0' = str_func_dict
    /\ startEmpty' = (tpl_list = <<>> /\ str_func_dict = EmptyDict)
    /\ runCand' = EmptyBag
    /\ runTrees' = 0
    /\ adjRuns' = 0
    /\ fileAdds' = 0
    /\ ownNodes' = <<>>
    /\ ownKept' = <<>>
    /\ UNCHANGED <<record, parser, inputs>>

\* Core.process_files(files), called directly on the fresh process.
ProcessFiles(fs) ==
    /\ pc = "idle"
    /\ outcome = "none"
    /\ lastOp' = "process_files"
    /\ EnterProcessFiles(fs)
    /\ IF NoFiles(fs)
       THEN Raise("NoFilesSpecifiedError")
       ELSE /\ pc' = AfterFile(0, Names(fs))
            /\ outcome' = "running"
            /\ err' = "none"

\* main(): Verifier.check_parsable(args.files), then mngr.process_files.
Main(fs) ==
    /\ pc = "idle"
    /\ outcome = "none"
    /\ lastOp' = "main"
    /\ EnterProcessFiles(fs)
    /\ IF check_parsable(fs) # "none"
       THEN Raise(check_parsable(fs))
       ELSE IF NoFiles(fs)
       THEN Raise("NoFilesSpecifiedError")
       ELSE /\ pc' = AfterFile(0, Names(fs))
            /\ outcome' = "running"
            /\ err' = "none"


\* Interface.load_new_ast(f_str.name) for the next file of the loop.
LoadNewAst ==
    /\ pc = "load"
    /\ lastOp' = "load_new_ast"
    /\ IF files[idx] = ""
       THEN /\ Raise("NoneFilePathError")
            /\ UNCHANGED <<ast, runTrees>>
       ELSE /\ \E tree \in Trees : ast' = tree
            /\ runTrees' = runTrees + 1
            /\ pc' = "process_ast"
            /\ UNCHANGED <<outcome, err>>
    /\ fileAdds' = 0
    /\ UNCHANGED <<record, parser, files, idx, fidx, sidx, log,
                   adjInput, dict0, startEmpty, runCand, adjRuns, own, inputs>>

\* The position after the loop over function_strings is exhausted for
\* function k of function_list.
AfterFunction(k, nodes) == IF k < Len(nodes) THEN "visit" ELSE "endfile"

\* AstParser.process_ast(ast) down to AstParser.locate_functions(ast): the
\* size check, the FuncDefVisitor pass and Verifier.check_num_ast_functions.
LocateFunctions ==
    /\ pc = "process_ast"
    /\ lastOp' = "locate_functions"
    /\ IF getsizeof(ast) < MIN_BYTES
       THEN /\ Raise("AstEmptyError")
            /\ UNCHANGED <<func_nodes, fidx>>
       ELSE /\ func_nodes' = VisitFuncDefs(func_nodes, ast)
            /\ IF NoFunctions(func_nodes')
               THEN /\ Raise("NoFunctionsFoundError")
                    /\ UNCHANGED fidx
               ELSE /\ pc' = AfterFunction(0, func_nodes')
                    /\ fidx' = 1
                    /\ UNCHANGED <<outcome, err>>
    /\ fs_bound' = "local"
    /\ ast' = <<>>           \* the tree is read once, by this pass
    /\ ownNodes' = VisitFuncDefs(<<>>, ast)
    /\ UNCHANGED <<record, const_values, files, idx, sidx, log, history, ownKept, inputs>>

\* function_strings.clear(): what it leaves in const_visitor.values, given
\* the list the local is bound to.  (clearMutKeep: the clear left out.)
clearMutKeep(bound, values) == values
clear(bound, values) == IF bound = "values" THEN <<>> ELSE values

\* One iteration head of the loop of build_function_str_pairs:
\* function_strings.clear(), then function_strings =
\* self.locate_func_strings(function_node).  clear() empties the list the
\* local is bound to, which from the second iteration on is
\* const_visitor.values itself.
LocateFuncStrings ==
    /\ pc = "visit"
    /\ lastOp' = "locate_func_strings"
    /\ \E body \in Bodies :
          LET cleared == clear(fs_bound, const_values)
              values  == VisitConstants(cleared, body)
          IN  /\ Len(tpl_list) + Len(values) <= MaxList
              /\ const_values' = values
              /\ ownKept' = VisitConstants(<<>>, body)
              /\ pc' = IF values = <<>> THEN AfterFunction(fidx, func_nodes) ELSE "append"
              /\ fidx' = IF values = <<>> THEN fidx + 1 ELSE fidx
    /\ fs_bound' = "values"
    /\ sidx' = 1
    /\ UNCHANGED <<record, func_nodes, files, idx, ast, outcome, err, log, history,
                   ownNodes, inputs>>

\* Record.add_func_str_to_list  (add_func_str_to_listMutFront: the tuple put
\* at the front.)
add_func_str_to_listMutFront(list, new_func, new_string) ==
    <<<<new_func, new_string>>>> \o list
add_func_str_to_list(list, new_func, new_string) ==
    Append(list, <<new_func, new_string>>)

\* One iteration of the inner loop of build_function_str_pairs:
\* Record.add_func_str_to_list(function_node.decl.name, function_str).
AddFuncStr ==
    /\ pc = "append"
    /\ lastOp' = "add_func_str_to_list"
    /\ tpl_list' = add_func_str_to_list(tpl_list, func_nodes[fidx].name, const_values[sidx])
    /\ runCand' = runCand (+) SetToBag({<<idx, func_nodes[fidx].name, const_values[sidx]>>})
    /\ fileAdds' = fileAdds + 1
    /\ IF sidx < Len(const_values)
       THEN /\ sidx' = sidx + 1
            /\ UNCHANGED <<pc, fidx>>
       ELSE /\ sidx' = 1
            /\ pc' = AfterFunction(fidx, func_nodes)
            /\ fidx' = fidx + 1
    /\ UNCHANGED <<str_func_dict, parser, files, idx, ast, outcome, err, log,
                   adjInput, dict0, startEmpty, runTrees, adjRuns, own, inputs>>

\* AstParser.__init__: the nodes and values of the two visitors afterwards,
\* both visitors being constructed anew.  (AstParser_initMutKeep: the call
\* left out.)
AstParser_initMutKeep(nodes, values) == <<nodes, values>>
AstParser_init(nodes, values) == << <<>>, <<>> >>

\* The end of build_function_str_pairs (Record.sort_tmp_list, self.__init__())
\* and the rest of process_ast (the warning), then the next file.
EndFile ==
    /\ pc = "endfile"
    /\ lastOp' = "process_ast"
    /\ tpl_list' = sort_tmp_list(tpl_list)
    /\ func_nodes' = AstParser_init(func_nodes, const_values)[1]
    /\ const_values' = AstParser_init(func_nodes, const_values)[2]
    /\ log' = IF NoStrings(tpl_list') THEN log \cup {WarnFile(idx)} ELSE log
    /\ pc' = AfterFile(idx, files)
    /\ idx' = idx + 1
    /\ ast' = <<>>
    /\ fidx' = 0
    /\ sidx' = 0
    /\ ownNodes' = <<>>
    /\ ownKept' = <<>>
    /\ UNCHANGED <<str_func_dict, fs_bound, files, outcome, err, history, inputs>>

\* Record.add_unique_to_dict: the dictionary afterwards.
\* (add_unique_to_dictMutSkip: the update left out.)
add_unique_to_dictMutSkip(list, d) == d
add_unique_to_dict(list, d) == Update(d, DictOfReverse(list))

\* The warnings of Record.add_unique_to_dict.
IntegrateWarnings(list, d) ==
    (IF list = <<>> THEN {WarnEmptyList} ELSE {})
    \cup (IF DOMAIN d = {} THEN {WarnEmptyDict} ELSE {})

\* Record.integrate_list_to_dict: remove_non_unique_from_list, sort_tmp_list,
\* add_unique_to_dict.
integrate_list_to_dict ==
    /\ adjInput' = tpl_list
    /\ tpl_list' = sort_tmp_list(remove_non_unique_from_list(tpl_list))
    /\ str_func_dict' = add_unique_to_dict(tpl_list', str_func_dict)
    /\ log' = (IF pc = "idle" THEN {} ELSE log)
                   \cup IntegrateWarnings(tpl_list', str_func_dict')
    /\ adjRuns' = IF pc = "idle" /\ adjRuns >= 2 THEN adjRuns ELSE adjRuns + 1

\* The end of Core.process_files: Record.integrate_list_to_dict(), return.
Integrate ==
    /\ pc = "integrate"
    /\ lastOp' = "integrate_list_to_dict"
    /\ integrate_list_to_dict
    /\ pc' = "idle"
    /\ outcome' = "returned"
    /\ UNCHANGED <<parser, files, idx, ast, fidx, sidx, err,
                   dict0, startEmpty, runCand, runTrees, fileAdds, own, inputs>>

\* The record of the last call of process_files is dropped when Record is
\* used directly.
DirectCall ==
    /\ pc = "idle"
    /\ pc' = "idle"
    /\ files' = <<>>
    /\ idx' = 0
    /\ outcome' = "none"
    /\ err' = "none"
    /\ dict0' = str_func_dict
    /\ startEmpty' = FALSE
    /\ runCand' = EmptyBag
    /\ runTrees' = 0
    /\ fileAdds' = 0
    /\ UNCHANGED <<parser, ast, fidx, sidx, own, inputs>>

\* Record.add_func_str_to_list(new_func, new_string), called directly.
AppendDirect(new_func, new_string) ==
    /\ DirectCall
    /\ Len(tpl_list) < MaxList
    /\ lastOp' = "Record.add_func_str_to_list"
    /\ tpl_list' = add_func_str_to_list(tpl_list, new_func, new_string)
    /\ adjInput' = <<>>
    /\ adjRuns' = 0
    /\ log' = {}
    /\ UNCHANGED str_func_dict

\* Record.integrate_list_to_dict(), called directly.
IntegrateDirect ==
    /\ DirectCall
    /\ lastOp' = "Record.integrate_list_to_dict"
    /\ integrate_list_to_dict

\* The string values a direct caller may append.
Strings == {StripQuotes(t) : t \in {u \in ConstTexts : ~ParsesAsInt(u)}} \ {<<>>}

\* The program: one process, run by main() or by one call of process_files.
Next ==
    \/ \E fs \in FileLists : ProcessFiles(fs)
    \/ \E fs \in FileLists : Main(fs)
    \/ LoadNewAst
    \/ LocateFunctions
    \/ LocateFuncStrings
    \/ AddFuncStr
    \/ EndFile
    \/ Integrate

Spec == Init /\ [][Next]_vars

\* Record used on its own: any sequence of appends and adjudications.
NextRecord ==
    \/ \E f \in {FuncNames[i] : i \in DOMAIN FuncNames}, s \in Strings : AppendDirect(f, s)
    \/ IntegrateDirect

SpecRecord == Init /\ [][NextRecord]_vars

\* ------------------------------------------- the walkers and the normalization

\* One Constant node handed to a new ConstantVisitor, and its text handed to
\* the normalization.
InitConst ==
    /\ InitProgram
    /\ node_value \in NodeValues
    /\ json_data = node_value
    /\ passes = 0
    /\ function_node = <<>>

\* ConstantVisitor.visit_Constant(node), once.
VisitConstant ==
    /\ lastOp = "init"
    /\ const_values' = visit_Constant(const_values, node_value)
    /\ lastOp' = "visit_Constant"
    /\ UNCHANGED <<record, func_nodes, fs_bound, pc, files, idx, ast, fidx, sidx,
                   outcome, err, log, history, own, inputs>>

\* The quote and backslash normalization of a value: the replace of
\* visit_Constant followed by the replace of process_out_data.
normalize(v) == process_out_data(StripQuotes(v))

\* One application of the normalization to the value; two are followed.
Normalize ==
    /\ passes < 2
    /\ json_data' = normalize(json_data)
    /\ passes' = passes + 1
    /\ UNCHANGED <<record, parser, pc, files, idx, ast, fidx, sidx, outcome, err,
                   log, lastOp, history, own, node_value, function_node>>

NextConst ==
    \/ VisitConstant
    \/ Normalize

SpecConst == InitConst /\ [][NextConst]_vars

\* One FuncDef node of a tree handed to the two visitors of a new AstParser.
InitWalk ==
    /\ InitProgram
    /\ node_value = <<>>
    /\ json_data = <<>>
    /\ passes = 0
    /\ function_node \in FunctionNodes

\* AstParser.locate_functions: visit_FuncDef records the node and does not
\* visit its children, so a definition nested in it is not recorded.
WalkFuncDefs ==
    /\ lastOp = "init"
    /\ func_nodes' = Append(func_nodes, [kind |-> "FuncDef", name |-> FuncNames[1]])
    /\ lastOp' = "locate_functions"
    /\ UNCHANGED <<record, const_values, fs_bound, pc, files, idx, ast, fidx, sidx,
                   outcome, err, log, history, own, inputs>>

\* AstParser.locate_func_strings on the recorded node.
WalkConstants ==
    /\ lastOp = "locate_functions"
    /\ const_values' = VisitNode(const_values, function_node)
    /\ lastOp' = "locate_func_strings"
    /\ UNCHANGED <<record, func_nodes, fs_bound, pc, files, idx, ast, fidx, sidx,
                   outcome, err, log, history, own, inputs>>

NextWalk ==
    \/ WalkFuncDefs
    \/ WalkConstants

SpecWalk == InitWalk /\ [][NextWalk]_vars

\* -------------------------------------------------------------- properties

InputShapeErrors ==
    {"NoFilesSpecifiedError", "FilePermissionsError", "FileLocationError", "NoneFilePathError"}

\* The state right after a call of process_files has returned.
RunReturned == pc = "idle" /\ outcome = "returned"

\* The state right after an adjudication, whoever called it.
Adjudicated == lastOp \in {"integrate_list_to_dict", "Record.integrate_list_to_dict"}

\* Occurrences of a string among the associations appended during the call.
RECURSIVE Copies(_, _)
Copies(B, S) ==
    IF S = {} THEN 0
    ELSE LET t == CHOOSE x \in S : TRUE IN CopiesIn(t, B) + Copies(B, S \ {t})

RunCount(string) == Copies(runCand, {t \in BagToSet(runCand) : t[3] = string})

\* The strings of a list, and whether one is paired with several functions.
StringsOf(list) == {list[i][2] : i \in DOMAIN list}

FuncsOf(list, string) == {list[i][1] : i \in {j \in DOMAIN list : list[j][2] = string}}

\* C1: after a run of process_files that started from an empty Record,
\* every key of str_func_dict occurred exactly once among the associations
\* appended during the run, over all its files.
C1_KeysOccurOnce ==
    (RunReturned /\ startEmpty) =>
        \A k \in DOMAIN str_func_dict : RunCount(k) = 1

\* A run has returned in which one string came from file 1 and from file 2
\* and is no key, while another string is a key.
C1_Witness ==
    /\ RunReturned
    /\ startEmpty
    /\ \E t1, t2 \in BagToSet(runCand) :
          /\ t1[1] = 1 /\ t2[1] = 2 /\ t1[3] = t2[3]
          /\ t1[3] \notin DOMAIN str_func_dict
    /\ DOMAIN str_func_dict # {}

\* C2: after a run of process_files that started from an empty Record,
\* every string that occurred exactly once among the appended associations
\* is a key of str_func_dict and maps to the function of that association.
C2_UniqueAreKeys ==
    (RunReturned /\ startEmpty) =>
        \A t \in BagToSet(runCand) :
            RunCount(t[3]) = 1 =>
                /\ t[3] \in DOMAIN str_func_dict
                /\ str_func_dict[t[3]] = t[2]

\* f1 with "a" (shared) and "b" (only_f1), f2 with "a": exactly {"b": "f1"}.
C2_Witness ==
    /\ RunReturned
    /\ startEmpty
    /\ \E i, j, k \in 1..MaxFiles :
          runCand = SetToBag({<<i, "f1", <<"a">> >>, <<j, "f1", <<"b">> >>, <<k, "f2", <<"a">> >>})
    /\ DOMAIN str_func_dict = {<<"b">>}
    /\ str_func_dict[<<"b">>] = "f1"

\* C3 as stated: in the state after any adjudication, a string that the
\* adjudicated list paired with more than one function is no key.
C3_SharedNeverKey ==
    Adjudicated =>
        \A string \in StringsOf(adjInput) :
            Cardinality(FuncsOf(adjInput, string)) > 1 => string \notin DOMAIN str_func_dict

\* C3 amended: an adjudication neither adds nor changes the entry of a
\* string that its list pairs with more than one function: such a string is
\* a key afterwards only if it was one before, with the same value.
C3_SharedNotCommitted ==
    [][Adjudicated' =>
        \A string \in StringsOf(adjInput') :
            (Cardinality(FuncsOf(adjInput', string)) > 1 /\ string \in DOMAIN str_func_dict') =>
                /\ string \in DOMAIN str_func_dict
                /\ str_func_dict'[string] = str_func_dict[string]]_vars

\* A repeated adjudication has run on a list that pairs a string with two
\* functions, and the string is still a key from the earlier adjudication.
C3_Witness ==
    /\ Adjudicated
    /\ \E string \in StringsOf(adjInput) :
          /\ Cardinality(FuncsOf(adjInput, string)) > 1
          /\ string \in DOMAIN str_func_dict

\* C4 as stated: after an adjudication, a string all of whose occurrences
\* in the adjudicated list belong to one function is a key mapped to it.
C4_SingleFunctionIsKey ==
    Adjudicated =>
        \A string \in StringsOf(adjInput) :
            Cardinality(FuncsOf(adjInput, string)) = 1 =>
                /\ string \in DOMAIN str_func_dict
                /\ {str_func_dict[string]} = FuncsOf(adjInput, string)

\* C4 amended: a string occurring exactly once in the adjudicated list is a
\* key afterwards, mapped to its function; a string occurring several times,
\* also within one single function, is not committed by that adjudication.
C4_OnceIsKey ==
    [][Adjudicated' =>
        \A string \in StringsOf(adjInput') :
            IF Count(adjInput', string) = 1
            THEN /\ string \in DOMAIN str_func_dict'
                 /\ {str_func_dict'[string]} = FuncsOf(adjInput', string)
            ELSE string \in DOMAIN str_func_dict' =>
                    /\ string \in DOMAIN str_func_dict
                    /\ str_func_dict'[string] = str_func_dict[string]]_vars

\* An adjudication has run on a list holding one string twice in one single
\* function, which is no key, and another string once, which is a key.
C4_Witness ==
    /\ Adjudicated
    /\ \E s1, s2 \in StringsOf(adjInput) :
          /\ Count(adjInput, s1) > 1
          /\ Cardinality(FuncsOf(adjInput, s1)) = 1
          /\ s1 \notin DOMAIN str_func_dict
          /\ Count(adjInput, s2) = 1
          /\ s2 \in DOMAIN str_func_dict

\* C5: during a run of process_files no step before the adjudication
\* changes str_func_dict (no append does); the adjudication runs after the
\* loop over the files is exhausted, and exactly once by the time the call
\* returns.
C5_AdjudicateOnceAtEnd ==
    /\ [][/\ pc # "integrate" => str_func_dict' = str_func_dict
          /\ lastOp' = "add_func_str_to_list" => str_func_dict' = str_func_dict
          /\ lastOp' = "integrate_list_to_dict" =>
                (idx > Len(files) /\ adjRuns = 0 /\ adjRuns' = 1)]_vars
    /\ [](outcome = "running" => adjRuns = 0)
    /\ [](RunReturned => (adjRuns = 1 /\ idx = Len(files) + 1))

\* A run over two files has returned, with associations appended from the
\* second file and a non-empty mapping.
C5_Witness ==
    /\ RunReturned
    /\ Len(files) = 2
    /\ \E t \in BagToSet(runCand) : t[1] = 2
    /\ DOMAIN str_func_dict # {}
    /\ adjRuns = 1

\* C6: over any sequence of appends and adjudications, no step removes a
\* key from str_func_dict.
C6_KeysNeverRemoved ==
    [][DOMAIN str_func_dict \subseteq DOMAIN str_func_dict']_vars

\* An adjudication has run whose survivors do not hold a string that is a
\* key from an earlier adjudication.
C6_Witness ==
    /\ lastOp = "Record.integrate_list_to_dict"
    /\ \E k \in DOMAIN str_func_dict : k \notin StringsOf(tpl_list)

\* C7: a call of process_files with no file raises NoFilesSpecifiedError
\* at once: no tree is requested, tpl_list and str_func_dict are unchanged.
C7_NoFilesFailsFirst ==
    /\ [][(lastOp' \in {"process_files", "main"} /\ files' = <<>>) =>
            /\ pc' = "idle"
            /\ outcome' = "raised"
            /\ err' = "NoFilesSpecifiedError"
            /\ runTrees' = 0
            /\ tpl_list' = tpl_list
            /\ str_func_dict' = str_func_dict]_vars
    /\ [](err = "NoFilesSpecifiedError" => (files = <<>> /\ runTrees = 0))

\* process_files has been called with the empty list and has raised.
C7_Witness ==
    /\ lastOp = "process_files"
    /\ files = <<>>
    /\ err = "NoFilesSpecifiedError"
    /\ runTrees = 0

\* C8 as stated: when a run has failed with an input-shape error, no tree
\* was requested during it.
C8_ShapeErrorBeforeAnyTree ==
    (outcome = "raised" /\ err \in InputShapeErrors) => runTrees = 0

\* C9: when the tree of a file holds no function definition, the step that
\* walks it raises NoFunctionsFoundError and changes neither tpl_list nor
\* str_func_dict; after it nothing of that file was appended, no later
\* tree was requested, no adjudication ran and str_func_dict is as it was
\* when the run started.
C9_NoFunctionsAborts ==
    /\ [][(pc = "process_ast" /\ VisitFuncDefs(<<>>, ast) = <<>>) =>
            /\ pc' = "idle"
            /\ outcome' = "raised"
            /\ err' = "NoFunctionsFoundError"
            /\ tpl_list' = tpl_list
            /\ str_func_dict' = str_func_dict]_vars
    /\ [](err = "NoFunctionsFoundError" =>
            /\ pc = "idle"
            /\ fileAdds = 0
            /\ runTrees = idx
            /\ adjRuns = 0
            /\ str_func_dict = dict0)

\* The second of two files had no function definition, after the first
\* file's associations were appended: the run stopped there.
C9_Witness ==
    /\ err = "NoFunctionsFoundError"
    /\ Len(files) = 2
    /\ idx = 2
    /\ tpl_list # <<>>
    /\ fileAdds = 0
    /\ adjRuns = 0

\* C10 as stated: after the pass over a file in which no string was found,
\* the warning for that file is in the log.
C10_WarnedForEveryEmptyFile ==
    (lastOp = "process_ast" /\ fileAdds = 0) => WarnFile(idx - 1) \in log

\* A text without the quote that opens it and the quote that closes it.
Unwrap(text) ==
    IF Len(text) >= 2 /\ text[1] = Q /\ text[Len(text)] = Q
    THEN SubSeq(text, 2, Len(text) - 1)
    ELSE text

\* C11 (as stated): visit_Constant discards a node whose text parses as an
\* integer; of any other node it keeps the text without its wrapping quotes,
\* when that is not empty.
C11_WrappingQuotesRemoved ==
    lastOp = "visit_Constant" =>
        const_values = IF ParsesAsInt(node_value) THEN <<>>
                       ELSE IF Unwrap(node_value) = <<>> THEN <<>>
                       ELSE <<Unwrap(node_value)>>

\* The texts of the Constant nodes that are children of the function node
\* itself, in order.
RECURSIVE OwnConstants(_)
OwnConstants(items) ==
    IF items = <<>> THEN <<>>
    ELSE (IF Head(items).kind = "Constant" THEN <<Head(items).value>> ELSE <<>>)
         \o OwnConstants(Tail(items))

\* C17 (as stated): the strings collected for a recorded function are those
\* of the constants reached without descending into a nested function
\* definition.
C17_NestedNotAttributed ==
    lastOp = "locate_func_strings" =>
        const_values = VisitConstants(<<>>, OwnConstants(function_node))

\* A run of n backslashes somewhere in s.
HasRun(s, n) ==
    \E i \in 1..(Len(s) - n + 1) : \A j \in i..(i + n - 1) : s[j] = BS

\* C18 (as stated): the normalization applied twice gives what it gives
\* applied once.
C18_NormalizeIdempotent ==
    passes = 2 => json_data = normalize(node_value)

\* C18 (amended): the second application changes nothing exactly when the
\* value, its double quotes removed, has no run of three or more backslashes.
C18_IdempotentUpToPairs ==
    passes = 2 =>
        (json_data = normalize(node_value) <=> ~HasRun(StripQuotes(node_value), 3))

C18_Witness ==
    /\ passes = 2
    /\ HasRun(StripQuotes(node_value), 2)
    /\ Q \in {node_value[i] : i \in DOMAIN node_value}
    /\ json_data = normalize(node_value)
    /\ json_data # StripQuotes(node_value)

\* C12 (as stated): when an adjudication has returned, the candidate list is
\* empty.
C12_ListEmptyAfterAdjudication ==
    Adjudicated => tpl_list = <<>>

C19_SecondAdjudicationChangesNothing ==
    [][(Adjudicated /\ Adjudicated') => str_func_dict' = str_func_dict]_vars

C19_Witness ==
    /\ Adjudicated
    /\ adjRuns = 2
    /\ tpl_list # <<>>
    /\ DOMAIN str_func_dict # {}
    /\ dict0 = str_func_dict

IsPrefix(a, b) == Len(a) <= Len(b) /\ SubSeq(b, 1, Len(a)) = a

Rank(name) == CHOOSE r \in DOMAIN FuncNames : FuncNames[r] = name

OfFunction(list, name) == SelectSeq(list, LAMBDA t : t[1] = name)

Elements(list) == {list[i] : i \in DOMAIN list}

C15_OwnLiteralsOnly ==
    [][/\ lastOp' = "locate_func_strings" =>
              IF ownKept' = <<>>
              THEN pc' # "append" /\ fidx' = fidx + 1
              ELSE pc' = "append" /\ fidx' = fidx /\ sidx' = 1
       /\ lastOp' = "add_func_str_to_list" =>
              /\ sidx <= Len(ownKept)
              /\ tpl_list' = Append(tpl_list, <<func_nodes[fidx].name, ownKept[sidx]>>)
              /\ IF sidx = Len(ownKept)
                 THEN pc' # "append" /\ fidx' = fidx + 1
                 ELSE pc' = "append" /\ fidx' = fidx /\ sidx' = sidx + 1]_vars

\* The second function of a file has had its strings appended, the first
\* having had another string that is not paired with the second.
C15_Witness ==
    /\ lastOp = "add_func_str_to_list"
    /\ pc = "endfile"
    /\ Len(func_nodes) = 2
    /\ func_nodes[1].name # func_nodes[2].name
    /\ \E t1, t2 \in BagToSet(runCand) :
           /\ t1[1] = idx /\ t2[1] = idx
           /\ t1[2] = func_nodes[1].name
           /\ t2[2] = func_nodes[2].name
           /\ t1[3] # t2[3]
           /\ <<idx, t2[2], t1[3]>> \notin BagToSet(runCand)

\* C16: during the pass for a file only the function definitions of that
\* file's tree are visited, and every association appended pairs one of
\* them with a string kept from its body.
C16_NoLeakAcrossFiles ==
    [][/\ lastOp' = "locate_functions" /\ pc' = "visit" => func_nodes' = ownNodes'
       /\ lastOp' = "locate_func_strings" => fidx <= Len(ownNodes)
       /\ lastOp' = "add_func_str_to_list" =>
              /\ fidx <= Len(ownNodes)
              /\ tpl_list'[Len(tpl_list')][1] = ownNodes[fidx].name
              /\ tpl_list'[Len(tpl_list')][2] \in Elements(ownKept)]_vars

\* The second file has had a string appended, the first file having had
\* another function with another string.
C16_Witness ==
    /\ lastOp = "add_func_str_to_list"
    /\ idx = 2
    /\ \E t1, t2 \in BagToSet(runCand) :
           /\ t1[1] = 1 /\ t2[1] = 2
           /\ t1[2] # t2[2]
           /\ t1[3] # t2[3]
           /\ \A t \in BagToSet(runCand) : t[1] = 2 => (t[2] # t1[2] /\ t[3] # t1[3])

====
